---- MODULE Spec2Model ----
(***************************************************************************)
(* Model of drivers/gpio/gpio-microsemi.c: the Microsemi MSS GPIO driver.  *)
(*                                                                         *)
(* A 32-bit register is the set of the positions of its 1 bits, so that    *)
(* x |= BIT(n) is x \cup {n}, x &= ~BIT(n) is x \ {n} and x & m is         *)
(* x \cap m.  Every MSS_GPIO_IOREAD and MSS_GPIO_IOWRITE is one step of    *)
(* the thread that performs it; raw_spin_lock_irqsave is taken in the step *)
(* of the first bus access of its critical section and                     *)
(* raw_spin_unlock_irqrestore is released in the step of the last one      *)
(* (no step of another thread between the lock call and that access can    *)
(* observe or change the lock).                                            *)
(***************************************************************************)
EXTENDS Integers, Sequences, FiniteSets, TLC

VARIABLES
    cfg,            \* gpio_cfg_base[0..31]: one config register per line
    irq,            \* *gpio_irq_base: sticky interrupt-status register
    inp,            \* *gpio_in_base: input register
    out,            \* *gpio_out_base: output register
    ngpio,          \* gc.ngpio, the result of of_irq_count()
    lock,           \* holder of mss_gpio->lock, or "none"
    chip_added,     \* gpiochip_add_data() has registered the chip
    irq_requested,  \* devm_request_irq() has installed the handler
    ppc,            \* probe: position
    gpio_index,     \* probe: loop variable of the clear loop
    ploc,           \* probe: local gpio_cfg
    pc,             \* caller thread: position
    op,             \* caller thread: the operation called last and its arguments
    loc,            \* caller thread: local gpio_cfg / output
    ret,            \* caller thread: <<value>> returned by the last call, <<>> if none
    hpc,            \* handler: position
    status,         \* handler: local status
    offset,         \* handler: loop variable of for_each_set_bit
    hloc,           \* handler: local output of assign_bit
    dispatched,     \* lines passed to generic_handle_irq in the current handler run
    hcleared,       \* history: status bits the current handler run's writes cleared
    hwrites,        \* history: register writes of the current handler run
    ncalls,         \* history: calls made by each caller thread
    nirqs,          \* history: handler runs started
    nhw,            \* history: hardware events
    cfg0,           \* history: the config registers before probe
    touched,        \* history: lines whose config register a line operation wrote
    enable_called,  \* history: lines for which irq_enable has been entered
    effects,        \* history: the register writes of each thread's current call,
                    \*   <<register, line, value written, status bits it cleared>>
    pre,            \* history: the registers and the previous call, at the latest
                    \*   call (sequential runs)
    script          \* the remaining events of a scripted run

regs == <<cfg, irq, inp, out>>
drv == <<ngpio, lock, chip_added, irq_requested>>
probe == <<ppc, gpio_index, ploc>>
call == <<pc, op, loc, ret>>
hand == <<hpc, status, offset, hloc, dispatched, hcleared, hwrites>>
hist == <<ncalls, nirqs, nhw, cfg0, touched, enable_called, effects>>
vars == <<regs, drv, probe, call, hand, hist, pre, script>>

----------------------------------------------------------------------------
(* Bounds of the model. *)

\* events in one behaviour: calls of line and interrupt-chip operations, runs of
\* the interrupt handler and hardware events
MaxEvents == 2

----------------------------------------------------------------------------
(* Program constants. *)

MSS_NUM_GPIO == 32
MSS_GPIO_X_CFG_EN_INT == 3
MSS_GPIO_X_CFG_BIT_GPIO_OE == 2
MSS_GPIO_X_CFG_BIT_EN_IN == 1
MSS_GPIO_X_CFG_BIT_EN_OUT == 0
EINVAL == 22

\* the bit positions of a u32
Word == 0 .. 31

BIT(n) == {n}

\* the register holding the unsigned number v (v < 8 suffices for the masks)
Bits(v) == {b \in 0 .. 2 : (v \div (2 ^ b)) % 2 = 1}

\* x << k on a u32
Shl(x, k) == {b + k : b \in x} \cap Word

\* the unsigned number a register field holds: bits lo .. lo+2 of x, shifted down
Field3(x, lo) ==
    (IF lo \in x THEN 1 ELSE 0) + (IF lo + 1 \in x THEN 2 ELSE 0)
        + (IF lo + 2 \in x THEN 4 ELSE 0)

MSS_GPIO_INTR_EDGE_BOTH_MASK == Shl(Bits(4), 5)
MSS_GPIO_INTR_EDGE_NEGATIVE_MASK == Shl(Bits(3), 5)
MSS_GPIO_INTR_EDGE_POSITIVE_MASK == Shl(Bits(2), 5)
MSS_GPIO_INTR_LEVEL_LOW_MASK == Shl(Bits(1), 5)
MSS_GPIO_INTR_LEVEL_HIGH_MASK == Shl(Bits(0), 5)

\* BIT_MASK(32) - 1 with a 64-bit unsigned long: (1UL << 32) - 1
MSS_GPIO_IRQ_MASK == {b \in 0 .. 63 : b < 32}

\* assign_bit writing the bit alone, the value read not merged in
assign_bit_overwrite(output, bit_offset, value) ==
    IF value # 0 THEN BIT(bit_offset) ELSE {}

\* assign_bit clearing with the mask not complemented: output &= BIT(bit_offset)
assign_bit_mask_kept(output, bit_offset, value) ==
    IF value # 0 THEN output \cup BIT(bit_offset) ELSE output \cap BIT(bit_offset)

\* assign_bit with the sense of value inverted
assign_bit_inverted(output, bit_offset, value) ==
    IF value # 0 THEN output \ BIT(bit_offset) ELSE output \cup BIT(bit_offset)

\* the value microsemi_mss_gpio_assign_bit writes, from the value it read
assign_bit(output, bit_offset, value) ==
    IF value # 0 THEN output \cup BIT(bit_offset) ELSE output \ BIT(bit_offset)

\* direction_input overwriting the register as direction_output does
direction_input_cfg_overwrite(gpio_cfg) == BIT(MSS_GPIO_X_CFG_BIT_EN_IN)

\* the value microsemi_mss_gpio_direction_input writes, from the value it read
direction_input_cfg(gpio_cfg) ==
    (gpio_cfg \cup BIT(MSS_GPIO_X_CFG_BIT_EN_IN))
        \ (BIT(MSS_GPIO_X_CFG_BIT_EN_OUT) \cup BIT(MSS_GPIO_X_CFG_BIT_GPIO_OE))

\* direction_output leaving output-enable out
direction_output_cfg_no_oe == BIT(MSS_GPIO_X_CFG_BIT_EN_OUT)

\* the value microsemi_mss_gpio_direction_output writes
direction_output_cfg ==
    (({} \cup (BIT(MSS_GPIO_X_CFG_BIT_EN_OUT) \cup BIT(MSS_GPIO_X_CFG_BIT_GPIO_OE)))
        \ BIT(MSS_GPIO_X_CFG_BIT_EN_IN))

\* get_direction with the two results exchanged
get_direction_result_swapped(gpio_cfg) ==
    IF gpio_cfg \cap BIT(MSS_GPIO_X_CFG_BIT_EN_IN) # {} THEN 0 ELSE 1

\* the result of microsemi_mss_gpio_get_direction, from the value it read
get_direction_result(gpio_cfg) ==
    IF gpio_cfg \cap BIT(MSS_GPIO_X_CFG_BIT_EN_IN) # {}
    THEN 1
    ELSE IF gpio_cfg \cap (BIT(MSS_GPIO_X_CFG_BIT_EN_OUT) \cup BIT(MSS_GPIO_X_CFG_BIT_GPIO_OE))
              = (BIT(MSS_GPIO_X_CFG_BIT_EN_OUT) \cup BIT(MSS_GPIO_X_CFG_BIT_GPIO_OE))
         THEN 0
         ELSE 0

\* get_value without the !!: the masked word taken for the result
get_value_result_no_normalise(in, index) ==
    IF in \cap BIT(index) # {} THEN 2 ^ index ELSE 0

\* the result of microsemi_mss_gpio_get_value, from the value it read
get_value_result(in, index) == IF in \cap BIT(index) # {} THEN 1 ELSE 0

\* the switch with level-high as its default
interrupt_type_default_high(type) ==
    CASE type = "IRQ_TYPE_EDGE_BOTH" -> MSS_GPIO_INTR_EDGE_BOTH_MASK
      [] type = "IRQ_TYPE_EDGE_FALLING" -> MSS_GPIO_INTR_EDGE_NEGATIVE_MASK
      [] type = "IRQ_TYPE_EDGE_RISING" -> MSS_GPIO_INTR_EDGE_POSITIVE_MASK
      [] type = "IRQ_TYPE_LEVEL_LOW" -> MSS_GPIO_INTR_LEVEL_LOW_MASK
      [] OTHER -> MSS_GPIO_INTR_LEVEL_HIGH_MASK

\* the switch of microsemi_mss_gpio_irq_set_type
interrupt_type(type) ==
    CASE type = "IRQ_TYPE_EDGE_BOTH" -> MSS_GPIO_INTR_EDGE_BOTH_MASK
      [] type = "IRQ_TYPE_EDGE_FALLING" -> MSS_GPIO_INTR_EDGE_NEGATIVE_MASK
      [] type = "IRQ_TYPE_EDGE_RISING" -> MSS_GPIO_INTR_EDGE_POSITIVE_MASK
      [] type = "IRQ_TYPE_LEVEL_HIGH" -> MSS_GPIO_INTR_LEVEL_HIGH_MASK
      [] OTHER -> MSS_GPIO_INTR_LEVEL_LOW_MASK

\* the probe loop clearing output-enable instead of interrupt-enable
probe_clear_cfg_wrong_bit(gpio_cfg) == gpio_cfg \ BIT(MSS_GPIO_X_CFG_BIT_GPIO_OE)

\* the value the probe loop writes, from the value it read
probe_clear_cfg(gpio_cfg) == gpio_cfg \ BIT(MSS_GPIO_X_CFG_EN_INT)

\* irqd_to_hwirq(d) % MSS_NUM_GPIO in irq_enable and irq_disable
hwirq_index(hwirq) == hwirq % MSS_NUM_GPIO

\* the range test at the head of the line operations
invalid_index(index, n) == index >= n

\* find_next_bit(addr, size, from): the first set bit at or after from, else size
find_next_bit(addr, size, from) ==
    IF \E b \in addr : from <= b /\ b < size
    THEN CHOOSE b \in addr : /\ from <= b /\ b < size
                             /\ \A c \in addr : (from <= c /\ c < size) => b <= c
    ELSE size

\* the status register after the value v is written to it: write-1-to-clear
irq_after_write(cur, v) == cur \ v

\* irq_enable without the clear of the sticky bit
enable_next_no_clear(label) ==
    CASE label = "entry" -> "di_read"
      [] label = "di_write" -> "en_cfg_read"
      [] label = "en_irq_read" -> "en_irq_write"
      [] label = "en_irq_write" -> "en_cfg_read"
      [] label = "en_cfg_read" -> "en_cfg_write"
      [] label = "en_cfg_write" -> "idle"

\* irq_enable setting interrupt-enable before it clears the sticky bit
enable_next_int_first(label) ==
    CASE label = "entry" -> "di_read"
      [] label = "di_write" -> "en_cfg_read"
      [] label = "en_cfg_read" -> "en_cfg_write"
      [] label = "en_cfg_write" -> "en_irq_read"
      [] label = "en_irq_read" -> "en_irq_write"
      [] label = "en_irq_write" -> "idle"

\* the order of the statements of microsemi_mss_gpio_irq_enable: the position
\* after the one at label ("entry": the call of direction_input; "di_write": its
\* return; the two assign_bit calls, each a read and a write)
enable_next(label) ==
    CASE label = "entry" -> "di_read"
      [] label = "di_write" -> "en_irq_read"
      [] label = "en_irq_read" -> "en_irq_write"
      [] label = "en_irq_write" -> "en_cfg_read"
      [] label = "en_cfg_read" -> "en_cfg_write"
      [] label = "en_cfg_write" -> "idle"

----------------------------------------------------------------------------
(* Caller threads: the gpio_chip and irq_chip callbacks. *)

Callers == {"t1", "t2"}

Op(name, idx, val, type) == [name |-> name, idx |-> idx, val |-> val, type |-> type]

NoOp == Op("none", 0, 0, "")

IrqChipOps == {"irq_enable", "irq_disable"}

\* gpio_index of the call thread t is in
cur_index(t) ==
    IF op[t].name \in IrqChipOps THEN hwirq_index(op[t].idx) ELSE op[t].idx

TotalCalls == ncalls["t1"] + ncalls["t2"]

\* the events so far
Events == TotalCalls + nirqs + nhw

\* no operation, handler run or probe is in progress
Quiet ==
    /\ \A t \in Callers : pc[t] = "idle"
    /\ hpc = "h_idle"
    /\ ppc \in {"p_done", "p_failed"}

\* the step finishes an event: probe, a call, a hardware event, a handler run
Finishes ==
    \/ ppc # "p_done" /\ ppc' = "p_done"
    \/ \E t \in Callers : pc[t] # "idle" /\ pc'[t] = "idle"
    \/ nhw' # nhw
    \/ hpc' = "h_idle" /\ (hpc # "h_idle" \/ nirqs' # nirqs)

\* a scripted run moves to its next event when the current one has finished
ScriptStep == script' = IF script # <<>> /\ Finishes THEN Tail(script) ELSE script

\* what a call starts from: the registers, and each thread's previous call
Regs == [cfg |-> cfg, irq |-> irq, inp |-> inp, out |-> out, op |-> op, ret |-> ret]

CallerFrame ==
    /\ UNCHANGED <<ngpio, chip_added, irq_requested, probe, hand, nirqs, nhw, cfg0>>
    /\ ScriptStep

\* a callback is entered: the chip is registered, the thread is free, and the
\* environment (its condition g) makes the call; s: pre records what it starts from
Enter(t, o, g, s) ==
    /\ pc[t] = "idle"
    /\ chip_added
    /\ g
    /\ pre' = IF s THEN Regs ELSE pre
    /\ op' = [op EXCEPT ![t] = o]
    /\ ncalls' = [ncalls EXCEPT ![t] = @ + 1]
    /\ effects' = [effects EXCEPT ![t] = <<>>]

\* the thread t is at label, inside a call
At_pc(t, label) == pc[t] = label /\ UNCHANGED pre

Goto(t, label) == pc' = [pc EXCEPT ![t] = label]

Return(t, r) ==
    /\ pc' = [pc EXCEPT ![t] = "idle"]
    /\ ret' = [ret EXCEPT ![t] = r]
    /\ loc' = [loc EXCEPT ![t] = {}]

\* microsemi_mss_gpio_direction_input: entry and range test
direction_input(t, index, g, s) ==
    /\ Enter(t, Op("direction_input", index, 0, ""), g, s)
    /\ IF invalid_index(index, ngpio)
       THEN Return(t, <<-EINVAL>>)
       ELSE Goto(t, "di_read") /\ UNCHANGED <<loc, ret>>
    /\ UNCHANGED <<regs, lock, touched, enable_called>>
    /\ CallerFrame

\* ... lock, gpio_cfg = MSS_GPIO_IOREAD(cfg)
di_read(t) ==
    /\ At_pc(t, "di_read")
    /\ lock = "none"
    /\ lock' = t
    /\ loc' = [loc EXCEPT ![t] = cfg[cur_index(t)]]
    /\ Goto(t, "di_write")
    /\ UNCHANGED <<regs, op, ret, ncalls, touched, enable_called, effects>>
    /\ CallerFrame

\* ... MSS_GPIO_IOWRITE(gpio_cfg, cfg), unlock, return 0 (into irq_enable when
\* it is the caller)
di_write(t) ==
    /\ At_pc(t, "di_write")
    /\ lock = t
    /\ lock' = "none"
    /\ cfg' = [cfg EXCEPT ![cur_index(t)] = direction_input_cfg(loc[t])]
    /\ effects' = [effects EXCEPT ![t] =
                      Append(@, <<"cfg", cur_index(t), direction_input_cfg(loc[t]), {}>>)]
    /\ touched' = touched \cup {cur_index(t)}
    /\ IF op[t].name = "irq_enable"
       THEN Goto(t, enable_next("di_write")) /\ loc' = [loc EXCEPT ![t] = {}] /\ UNCHANGED ret
       ELSE Return(t, <<0>>)
    /\ UNCHANGED <<irq, inp, out, op, ncalls, enable_called>>
    /\ CallerFrame

\* microsemi_mss_gpio_direction_output: entry and range test
direction_output(t, index, value, g, s) ==
    /\ Enter(t, Op("direction_output", index, value, ""), g, s)
    /\ IF invalid_index(index, ngpio)
       THEN Return(t, <<-EINVAL>>)
       ELSE Goto(t, "do_cfg") /\ UNCHANGED <<loc, ret>>
    /\ UNCHANGED <<regs, lock, touched, enable_called>>
    /\ CallerFrame

\* ... lock, MSS_GPIO_IOWRITE(gpio_cfg, cfg)
do_cfg(t) ==
    /\ At_pc(t, "do_cfg")
    /\ lock = "none"
    /\ lock' = t
    /\ cfg' = [cfg EXCEPT ![cur_index(t)] = direction_output_cfg]
    /\ effects' = [effects EXCEPT ![t] =
                      Append(@, <<"cfg", cur_index(t), direction_output_cfg, {}>>)]
    /\ touched' = touched \cup {cur_index(t)}
    /\ Goto(t, "do_out_read")
    /\ UNCHANGED <<irq, inp, out, op, loc, ret, ncalls, enable_called>>
    /\ CallerFrame

\* ... assign_bit(gpio_out_base, gpio_index, value): the read
do_out_read(t) ==
    /\ At_pc(t, "do_out_read")
    /\ loc' = [loc EXCEPT ![t] = out]
    /\ Goto(t, "do_out_write")
    /\ UNCHANGED <<regs, lock, op, ret, ncalls, touched, enable_called, effects>>
    /\ CallerFrame

\* ... assign_bit: the write; unlock, return 0
do_out_write(t) ==
    /\ At_pc(t, "do_out_write")
    /\ lock = t
    /\ lock' = "none"
    /\ out' = assign_bit(loc[t], cur_index(t), op[t].val)
    /\ effects' = [effects EXCEPT ![t] =
                      Append(@, <<"out", cur_index(t), assign_bit(loc[t], cur_index(t), op[t].val), {}>>)]
    /\ Return(t, <<0>>)
    /\ UNCHANGED <<cfg, irq, inp, op, ncalls, touched, enable_called>>
    /\ CallerFrame

\* microsemi_mss_gpio_get_direction: range test, one read, the result
get_direction(t, index, g, s) ==
    /\ Enter(t, Op("get_direction", index, 0, ""), g, s)
    /\ IF invalid_index(index, ngpio)
       THEN Return(t, <<-EINVAL>>)
       ELSE Return(t, <<get_direction_result(cfg[index])>>)
    /\ UNCHANGED <<regs, lock, touched, enable_called>>
    /\ CallerFrame

\* microsemi_mss_gpio_get_value: range test, one read, the result
get_value(t, index, g, s) ==
    /\ Enter(t, Op("get_value", index, 0, ""), g, s)
    /\ IF invalid_index(index, ngpio)
       THEN Return(t, <<-EINVAL>>)
       ELSE Return(t, <<get_value_result(inp, index)>>)
    /\ UNCHANGED <<regs, lock, touched, enable_called>>
    /\ CallerFrame

\* microsemi_mss_gpio_set_value: entry and range test
set_value(t, index, value, g, s) ==
    /\ Enter(t, Op("set_value", index, value, ""), g, s)
    /\ IF invalid_index(index, ngpio)
       THEN Return(t, <<>>)
       ELSE Goto(t, "sv_read") /\ UNCHANGED <<loc, ret>>
    /\ UNCHANGED <<regs, lock, touched, enable_called>>
    /\ CallerFrame

\* ... lock, assign_bit(gpio_out_base, gpio_index, value): the read
sv_read(t) ==
    /\ At_pc(t, "sv_read")
    /\ lock = "none"
    /\ lock' = t
    /\ loc' = [loc EXCEPT ![t] = out]
    /\ Goto(t, "sv_write")
    /\ UNCHANGED <<regs, op, ret, ncalls, touched, enable_called, effects>>
    /\ CallerFrame

\* ... assign_bit: the write; unlock
sv_write(t) ==
    /\ At_pc(t, "sv_write")
    /\ lock = t
    /\ lock' = "none"
    /\ out' = assign_bit(loc[t], cur_index(t), op[t].val)
    /\ effects' = [effects EXCEPT ![t] =
                      Append(@, <<"out", cur_index(t), assign_bit(loc[t], cur_index(t), op[t].val), {}>>)]
    /\ Return(t, <<>>)
    /\ UNCHANGED <<cfg, irq, inp, op, ncalls, touched, enable_called>>
    /\ CallerFrame

\* microsemi_mss_gpio_irq_set_type: entry, range test and the switch
irq_set_type(t, index, type, g, s) ==
    /\ Enter(t, Op("irq_set_type", index, 0, type), g, s)
    /\ IF index < 0 \/ invalid_index(index, ngpio)
       THEN Return(t, <<-EINVAL>>)
       ELSE Goto(t, "st_read") /\ UNCHANGED <<loc, ret>>
    /\ UNCHANGED <<regs, lock, touched, enable_called>>
    /\ CallerFrame

\* ... lock, gpio_cfg = MSS_GPIO_IOREAD(cfg)
st_read(t) ==
    /\ At_pc(t, "st_read")
    /\ lock = "none"
    /\ lock' = t
    /\ loc' = [loc EXCEPT ![t] = cfg[cur_index(t)]]
    /\ Goto(t, "st_write")
    /\ UNCHANGED <<regs, op, ret, ncalls, touched, enable_called, effects>>
    /\ CallerFrame

\* ... gpio_cfg |= interrupt_type; MSS_GPIO_IOWRITE(gpio_cfg, cfg), unlock, return 0
st_write(t) ==
    /\ At_pc(t, "st_write")
    /\ lock = t
    /\ lock' = "none"
    /\ cfg' = [cfg EXCEPT ![cur_index(t)] = loc[t] \cup interrupt_type(op[t].type)]
    /\ effects' = [effects EXCEPT ![t] =
                      Append(@, <<"cfg", cur_index(t), loc[t] \cup interrupt_type(op[t].type), {}>>)]
    /\ touched' = touched \cup {cur_index(t)}
    /\ Return(t, <<0>>)
    /\ UNCHANGED <<irq, inp, out, op, ncalls, enable_called>>
    /\ CallerFrame

\* microsemi_mss_gpio_irq_enable: entry; the call of direction_input and its
\* range test, whose result is dropped
irq_enable(t, hwirq, g, s) ==
    /\ Enter(t, Op("irq_enable", hwirq, 0, ""), g, s)
    /\ enable_called' = enable_called \cup {hwirq_index(hwirq)}
    /\ IF invalid_index(hwirq_index(hwirq), ngpio)
       THEN Goto(t, enable_next("di_write"))
       ELSE Goto(t, enable_next("entry"))
    /\ UNCHANGED <<regs, lock, loc, ret, touched>>
    /\ CallerFrame

\* ... assign_bit(gpio_irq_base, gpio_index, 1): the read
en_irq_read(t) ==
    /\ At_pc(t, "en_irq_read")
    /\ loc' = [loc EXCEPT ![t] = irq]
    /\ Goto(t, enable_next("en_irq_read"))
    /\ UNCHANGED <<regs, lock, op, ret, ncalls, touched, enable_called, effects>>
    /\ CallerFrame

\* ... assign_bit: the write
en_irq_write(t) ==
    /\ At_pc(t, "en_irq_write")
    /\ irq' = irq_after_write(irq, assign_bit(loc[t], cur_index(t), 1))
    /\ effects' = [effects EXCEPT ![t] =
                      Append(@, <<"irq", cur_index(t), assign_bit(loc[t], cur_index(t), 1),
                                  irq \cap assign_bit(loc[t], cur_index(t), 1)>>)]
    /\ Goto(t, enable_next("en_irq_write"))
    /\ loc' = [loc EXCEPT ![t] = {}]
    /\ UNCHANGED <<cfg, inp, out, lock, op, ret, ncalls, touched, enable_called>>
    /\ CallerFrame

\* ... assign_bit(cfg, MSS_GPIO_X_CFG_EN_INT, 1): the read
en_cfg_read(t) ==
    /\ At_pc(t, "en_cfg_read")
    /\ loc' = [loc EXCEPT ![t] = cfg[cur_index(t)]]
    /\ Goto(t, enable_next("en_cfg_read"))
    /\ UNCHANGED <<regs, lock, op, ret, ncalls, touched, enable_called, effects>>
    /\ CallerFrame

\* ... assign_bit: the write; return
en_cfg_write(t) ==
    /\ At_pc(t, "en_cfg_write")
    /\ cfg' = [cfg EXCEPT ![cur_index(t)] = assign_bit(loc[t], MSS_GPIO_X_CFG_EN_INT, 1)]
    /\ effects' = [effects EXCEPT ![t] =
                      Append(@, <<"cfg", cur_index(t), assign_bit(loc[t], MSS_GPIO_X_CFG_EN_INT, 1), {}>>)]
    /\ touched' = touched \cup {cur_index(t)}
    /\ IF enable_next("en_cfg_write") = "idle"
       THEN Return(t, <<>>)
       ELSE Goto(t, enable_next("en_cfg_write")) /\ loc' = [loc EXCEPT ![t] = {}] /\ UNCHANGED ret
    /\ UNCHANGED <<irq, inp, out, lock, op, ncalls, enable_called>>
    /\ CallerFrame

\* microsemi_mss_gpio_irq_disable: entry
irq_disable(t, hwirq, g, s) ==
    /\ Enter(t, Op("irq_disable", hwirq, 0, ""), g, s)
    /\ Goto(t, "ds_read")
    /\ UNCHANGED <<regs, lock, loc, ret, touched, enable_called>>
    /\ CallerFrame

\* ... assign_bit(cfg, MSS_GPIO_X_CFG_EN_INT, 0): the read
ds_read(t) ==
    /\ At_pc(t, "ds_read")
    /\ loc' = [loc EXCEPT ![t] = cfg[cur_index(t)]]
    /\ Goto(t, "ds_write")
    /\ UNCHANGED <<regs, lock, op, ret, ncalls, touched, enable_called, effects>>
    /\ CallerFrame

\* ... assign_bit: the write; return
ds_write(t) ==
    /\ At_pc(t, "ds_write")
    /\ cfg' = [cfg EXCEPT ![cur_index(t)] = assign_bit(loc[t], MSS_GPIO_X_CFG_EN_INT, 0)]
    /\ effects' = [effects EXCEPT ![t] =
                      Append(@, <<"cfg", cur_index(t), assign_bit(loc[t], MSS_GPIO_X_CFG_EN_INT, 0), {}>>)]
    /\ touched' = touched \cup {cur_index(t)}
    /\ Return(t, <<>>)
    /\ UNCHANGED <<irq, inp, out, lock, op, ncalls, enable_called>>
    /\ CallerFrame

----------------------------------------------------------------------------
(* The interrupt handler installed by probe: microsemi_gpio_irq_handler. *)

HandlerFrame ==
    /\ UNCHANGED <<cfg, inp, out, drv, probe, call, ncalls, nhw, cfg0, touched,
                   enable_called, effects, pre>>
    /\ ScriptStep

\* entry: status = MSS_GPIO_IOREAD(gpio_irq_base) & MSS_GPIO_IRQ_MASK, and the
\* first find of for_each_set_bit; return IRQ_HANDLED when there is no set bit
handler_entry(g) ==
    /\ hpc = "h_idle"
    /\ irq_requested
    /\ g
    /\ nirqs' = nirqs + 1
    /\ status' = irq \cap MSS_GPIO_IRQ_MASK
    /\ offset' = find_next_bit(irq \cap MSS_GPIO_IRQ_MASK, ngpio, 0)
    /\ hpc' = IF find_next_bit(irq \cap MSS_GPIO_IRQ_MASK, ngpio, 0) < ngpio
              THEN "h_read" ELSE "h_idle"
    /\ dispatched' = <<>>
    /\ hcleared' = {}
    /\ hwrites' = 0
    /\ UNCHANGED <<irq, hloc>>
    /\ HandlerFrame

\* assign_bit(gpio_irq_base, offset, 1): the read
handler_read ==
    /\ hpc = "h_read"
    /\ hloc' = irq
    /\ hpc' = "h_write"
    /\ UNCHANGED <<irq, status, offset, dispatched, hcleared, hwrites, nirqs>>
    /\ HandlerFrame

\* assign_bit: the write
handler_write ==
    /\ hpc = "h_write"
    /\ irq' = irq_after_write(irq, assign_bit(hloc, offset, 1))
    /\ hcleared' = hcleared \cup (irq \cap assign_bit(hloc, offset, 1))
    /\ hwrites' = hwrites + 1
    /\ hloc' = {}
    /\ hpc' = "h_dispatch"
    /\ UNCHANGED <<status, offset, dispatched, nirqs>>
    /\ HandlerFrame

\* generic_handle_irq(irq_find_mapping(domain, offset)), and the next find of
\* for_each_set_bit; return IRQ_HANDLED when there is no further set bit
handler_dispatch ==
    /\ hpc = "h_dispatch"
    /\ dispatched' = Append(dispatched, offset)
    /\ offset' = find_next_bit(status, ngpio, offset + 1)
    /\ hpc' = IF find_next_bit(status, ngpio, offset + 1) < ngpio
              THEN "h_read" ELSE "h_idle"
    /\ UNCHANGED <<irq, status, hloc, hcleared, hwrites, nirqs>>
    /\ HandlerFrame

----------------------------------------------------------------------------
(* microsemi_mss_gpio_probe. *)

ProbeFrame ==
    /\ UNCHANGED <<irq, inp, out, ngpio, call, hand, ncalls, nirqs, nhw, cfg0,
                   touched, enable_called, effects, pre>>
    /\ ScriptStep

\* allocation, ioremap, clock, the ngpio test and devm_irq_alloc_descs: any of
\* them failing returns an error with nothing registered
probe_setup ==
    /\ ppc = "p_start"
    /\ \E ok \in BOOLEAN :
          ppc' = IF ok /\ ~(ngpio > MSS_NUM_GPIO) THEN "p_add" ELSE "p_failed"
    /\ UNCHANGED <<cfg, lock, chip_added, irq_requested, gpio_index, ploc>>
    /\ ProbeFrame

\* ret = gpiochip_add_data(&mss_gpio->gc, mss_gpio); if (ret) return ret;
probe_add_data ==
    /\ ppc = "p_add"
    /\ \E ok \in BOOLEAN :
          /\ chip_added' = ok
          /\ ppc' = IF ok THEN "p_request" ELSE "p_failed"
    /\ UNCHANGED <<cfg, lock, irq_requested, gpio_index, ploc>>
    /\ ProbeFrame

\* ret = devm_request_irq(...); a failure is only logged.  gpio_index = 0.
probe_request_irq ==
    /\ ppc = "p_request"
    /\ \E ok \in BOOLEAN : irq_requested' = ok
    /\ gpio_index' = 0
    /\ ppc' = "p_loop"
    /\ UNCHANGED <<cfg, lock, chip_added, ploc>>
    /\ ProbeFrame

\* the clear loop: lock, gpio_cfg = MSS_GPIO_IOREAD(cfg)
probe_clear_read ==
    /\ ppc = "p_loop"
    /\ gpio_index < ngpio
    /\ lock = "none"
    /\ lock' = "probe"
    /\ ploc' = cfg[gpio_index]
    /\ ppc' = "p_write"
    /\ UNCHANGED <<cfg, chip_added, irq_requested, gpio_index>>
    /\ ProbeFrame

\* the clear loop: gpio_cfg &= ~BIT(EN_INT); MSS_GPIO_IOWRITE(gpio_cfg, cfg),
\* unlock, gpio_index++
probe_clear_write ==
    /\ ppc = "p_write"
    /\ lock = "probe"
    /\ lock' = "none"
    /\ cfg' = [cfg EXCEPT ![gpio_index] = probe_clear_cfg(ploc)]
    /\ ploc' = {}
    /\ gpio_index' = gpio_index + 1
    /\ ppc' = "p_loop"
    /\ UNCHANGED <<chip_added, irq_requested>>
    /\ ProbeFrame

\* the loop ends; platform_set_drvdata, return 0
probe_return ==
    /\ ppc = "p_loop"
    /\ ~(gpio_index < ngpio)
    /\ ppc' = "p_done"
    /\ UNCHANGED <<cfg, lock, chip_added, irq_requested, gpio_index, ploc>>
    /\ ProbeFrame

----------------------------------------------------------------------------
(* The hardware. *)

HwFrame ==
    /\ UNCHANGED <<cfg, out, drv, probe, call, hand, ncalls, nirqs, cfg0, touched,
                   enable_called, effects, pre>>
    /\ ScriptStep

\* a line's trigger condition occurs: its sticky status bit is set
hw_trigger(line, g) ==
    /\ g
    /\ line \notin irq
    /\ irq' = irq \cup {line}
    /\ nhw' = nhw + 1
    /\ UNCHANGED inp
    /\ HwFrame

\* the level of a line's pin changes
hw_level(line, g) ==
    /\ g
    /\ inp' = IF line \in inp THEN inp \ {line} ELSE inp \cup {line}
    /\ nhw' = nhw + 1
    /\ UNCHANGED irq
    /\ HwFrame

----------------------------------------------------------------------------
(* Specifications. *)

\* the state when probe is called: the registers hold what the hardware was
\* left with (C a set of config banks, I, P, O sets of register values)
InitWith(N, C, I, P, O, S) ==
    /\ ngpio \in N
    /\ cfg \in C
    /\ irq \in I
    /\ inp \in P
    /\ out \in O
    /\ lock = "none"
    /\ chip_added = FALSE
    /\ irq_requested = FALSE
    /\ ppc = "p_start"
    /\ gpio_index = 0
    /\ ploc = {}
    /\ pc = [t \in Callers |-> "idle"]
    /\ op = [t \in Callers |-> NoOp]
    /\ loc = [t \in Callers |-> {}]
    /\ ret = [t \in Callers |-> <<>>]
    /\ hpc = "h_idle"
    /\ status = {}
    /\ offset = 0
    /\ hloc = {}
    /\ dispatched = <<>>
    /\ hcleared = {}
    /\ hwrites = 0
    /\ ncalls = [t \in Callers |-> 0]
    /\ nirqs = 0
    /\ nhw = 0
    /\ cfg0 = cfg
    /\ touched = {}
    /\ enable_called = {}
    /\ effects = [t \in Callers |-> <<>>]
    /\ pre = Regs
    /\ script = S

\* a config bank: the lines of A hold a, the lines of B hold b, the others 0
Bank(A, a, B, b) ==
    [i \in 0 .. (MSS_NUM_GPIO - 1) |-> IF i \in A THEN a ELSE IF i \in B THEN b ELSE {}]

ProbeSteps ==
    \/ probe_setup
    \/ probe_add_data
    \/ probe_request_irq
    \/ probe_clear_read
    \/ probe_clear_write
    \/ probe_return

CallerSteps(t) ==
    \/ di_read(t) \/ di_write(t)
    \/ do_cfg(t) \/ do_out_read(t) \/ do_out_write(t)
    \/ sv_read(t) \/ sv_write(t)
    \/ st_read(t) \/ st_write(t)
    \/ en_irq_read(t) \/ en_irq_write(t) \/ en_cfg_read(t) \/ en_cfg_write(t)
    \/ ds_read(t) \/ ds_write(t)

HandlerSteps == handler_read \/ handler_write \/ handler_dispatch

\* the calls: T the threads, IDX the indices of line operations, HWQ the hwirq of
\* interrupt-chip operations, VAL the values, TYP the trigger types
Calls(T, IDX, HWQ, VAL, TYP, g, s) ==
    \E t \in T :
        \/ \E i \in IDX : direction_input(t, i, g, s)
        \/ \E i \in IDX, v \in VAL : direction_output(t, i, v, g, s)
        \/ \E i \in IDX : get_direction(t, i, g, s)
        \/ \E i \in IDX : get_value(t, i, g, s)
        \/ \E i \in IDX, v \in VAL : set_value(t, i, v, g, s)
        \/ \E i \in IDX, ty \in TYP : irq_set_type(t, i, ty, g, s)
        \/ \E h \in HWQ : irq_enable(t, h, g, s)
        \/ \E h \in HWQ : irq_disable(t, h, g, s)

\* Concurrent runs: two caller threads, the handler, probe and the hardware
\* interleave at every bus access.
ConcNgpio == {2, 33}
ConcIdx == {0}
ConcHwirq == {0}
ConcVal == {1}
ConcTyp == {"IRQ_TYPE_EDGE_RISING"}
ConcLines == {0}
ConcCfg == {Bank({0, 1, 2}, a, {}, {}) : a \in {{}, {0, 2, 3, 5}}}
ConcIrq == {{}, {0, 2}}

Init == InitWith(ConcNgpio, ConcCfg, ConcIrq, {{}}, {{}}, <<>>)

Next ==
    \/ ProbeSteps
    \/ Calls(Callers, ConcIdx, ConcHwirq, ConcVal, ConcTyp, Events < MaxEvents, FALSE)
    \/ \E t \in Callers : CallerSteps(t)
    \/ handler_entry(Events < MaxEvents)
    \/ HandlerSteps
    \/ \E l \in ConcLines : hw_trigger(l, Events < MaxEvents)
    \/ \E l \in ConcLines : hw_level(l, Events < MaxEvents)

Spec == Init /\ [][Next]_vars

\* Sequential runs: one caller thread; a call, a handler run or a hardware event
\* starts only when probe has returned and nothing else is in progress.
SeqNgpio == {8, 33}
SeqIdx == {3, 9}
SeqHwirq == {3, 9, 35}
SeqVal == {0, 1}
SeqTyp == {"IRQ_TYPE_EDGE_RISING", "IRQ_TYPE_NONE"}
SeqLines == {3, 9}
SeqCfg ==
    {Bank({3, 9}, a, Word \ {3, 9}, b) :
        a \in {{}, {0, 2, 3, 7}, {1, 3, 5, 6}}, b \in {{0, 2}, {1, 3, 6}}}
SeqIrq == {{}, {3}, {2, 5, 9}}
SeqOut == {{5}, {3, 5}}
SeqInp == {{3}}

InitSeq == InitWith(SeqNgpio, SeqCfg, SeqIrq, SeqInp, SeqOut, <<>>)

\* pre records what each call starts from
NextSeq ==
    \/ ProbeSteps
    \/ Calls({"t1"}, SeqIdx, SeqHwirq, SeqVal, SeqTyp, Quiet /\ Events < MaxEvents, TRUE)
    \/ CallerSteps("t1")
    \/ handler_entry(Quiet /\ Events < MaxEvents)
    \/ HandlerSteps
    \/ \E l \in SeqLines : hw_trigger(l, Quiet /\ Events < MaxEvents)
    \/ \E l \in SeqLines : hw_level(l, Quiet /\ Events < MaxEvents)

SpecSeq == InitSeq /\ [][NextSeq]_vars

\* The scripted run: initialize(window, lineCount = 8), setTriggerType(3,
\* EdgeRising), enable(3), the hardware sets status bit 3, handleInterrupt();
\* each event starts when the one before it has finished.
ScenarioScript == <<"initialize", "setTriggerType", "enable", "trigger", "handleInterrupt">>
ScenCfg ==
    {Bank({3}, a, Word \ {3}, b) :
        a \in {{}, {3}, {0, 2, 3, 7}, {1, 3, 5, 6}}, b \in {{}, {0, 2}, {1, 3, 6}}}
ScenIrq == {{}, {3}, {2, 5}, {2, 3, 5, 9}}

InitScenario == InitWith({8}, ScenCfg, ScenIrq, {{}}, {{}, {3}}, ScenarioScript)

At(e) == script # <<>> /\ Head(script) = e

NextScenario ==
    \/ ProbeSteps
    \/ irq_set_type("t1", 3, "IRQ_TYPE_EDGE_RISING", At("setTriggerType") /\ Quiet, TRUE)
    \/ st_read("t1") \/ st_write("t1")
    \/ irq_enable("t1", 3, At("enable") /\ Quiet, TRUE)
    \/ di_read("t1") \/ di_write("t1")
    \/ en_irq_read("t1") \/ en_irq_write("t1")
    \/ en_cfg_read("t1") \/ en_cfg_write("t1")
    \/ hw_trigger(3, At("trigger") /\ Quiet)
    \/ handler_entry(At("handleInterrupt") /\ Quiet)
    \/ HandlerSteps

SpecScenario == InitScenario /\ [][NextScenario]_vars

\* Trigger-type runs: one caller makes calls of irq_set_type, with every type
\* of the switch and one it does not name, one call at a time.
TrigTyp ==
    {"IRQ_TYPE_EDGE_BOTH", "IRQ_TYPE_EDGE_FALLING", "IRQ_TYPE_EDGE_RISING",
     "IRQ_TYPE_LEVEL_HIGH", "IRQ_TYPE_LEVEL_LOW", "IRQ_TYPE_NONE"}
TrigIdx == {3, 9}
TrigCfg ==
    {Bank({3}, a, Word \ {3}, b) : a \in {{}, {1, 3}, {0, 2, 6}}, b \in {{0, 2}, {1, 3, 6}}}

InitTrig == InitWith({8}, TrigCfg, {{2, 5}}, {{}}, {{3, 5}}, <<>>)

NextTrig ==
    \/ ProbeSteps
    \/ \E i \in TrigIdx, ty \in TrigTyp :
          irq_set_type("t1", i, ty, Quiet /\ Events < MaxEvents, TRUE)
    \/ st_read("t1")
    \/ st_write("t1")

SpecTrig == InitTrig /\ [][NextTrig]_vars

\* Output-register runs: two caller threads write the shared output register
\* with set_value and direction_output, interleaved at every bus access.
OutIdx == {0, 1}
OutVal == {0, 1}
OutCfg == {Bank({0, 1}, a, {}, {}) : a \in {{1}, {0, 2, 6}}}
OutOut == {{}, {0, 1, 5}}

InitOut == InitWith({2}, OutCfg, {{}}, {{}}, OutOut, <<>>)

NextOut ==
    \/ ProbeSteps
    \/ \E t \in Callers, i \in OutIdx, v \in OutVal :
          set_value(t, i, v, Events < MaxEvents, FALSE)
    \/ \E t \in Callers, i \in OutIdx, v \in OutVal :
          direction_output(t, i, v, Events < MaxEvents, FALSE)
    \/ \E t \in Callers : sv_read(t)
    \/ \E t \in Callers : sv_write(t)
    \/ \E t \in Callers : do_cfg(t)
    \/ \E t \in Callers : do_out_read(t)
    \/ \E t \in Callers : do_out_write(t)

SpecOut == InitOut /\ [][NextOut]_vars

\* Dispatch runs: the handler runs while the hardware sets status bits, at any
\* point between the handler's bus accesses.
IrqLines == {0, 1}
IrqCfg == {Bank({0, 1}, a, {}, {}) : a \in {{1}, {1, 3, 6}}}
IrqIrq == {{}, {0}}

InitIrq == InitWith({2}, IrqCfg, IrqIrq, {{}}, {{}}, <<>>)

NextIrq ==
    \/ ProbeSteps
    \/ handler_entry(Events < MaxEvents)
    \/ HandlerSteps
    \/ \E l \in IrqLines : hw_trigger(l, Events < MaxEvents)

SpecIrq == InitIrq /\ [][NextIrq]_vars

\* Config-register runs: when probe has returned, two caller threads work on
\* the config register of one line with the interrupt-chip and direction
\* operations, interleaved at every bus access.
RaceCfg == {Bank({0, 1}, a, {}, {}) : a \in {{}, {1}, {0, 2, 3, 7}}}

InitRace == InitWith({2}, RaceCfg, {{}, {0}}, {{}}, {{}}, <<>>)

NextRace ==
    \/ ProbeSteps
    \/ \E t \in Callers : irq_enable(t, 0, ppc = "p_done" /\ Events < MaxEvents, FALSE)
    \/ \E t \in Callers : irq_disable(t, 0, ppc = "p_done" /\ Events < MaxEvents, FALSE)
    \/ \E t \in Callers :
          irq_set_type(t, 0, "IRQ_TYPE_EDGE_RISING", ppc = "p_done" /\ Events < MaxEvents, FALSE)
    \/ \E t \in Callers : direction_input(t, 0, ppc = "p_done" /\ Events < MaxEvents, FALSE)
    \/ \E t \in Callers : direction_output(t, 0, 1, ppc = "p_done" /\ Events < MaxEvents, FALSE)
    \/ \E t \in Callers : di_read(t)
    \/ \E t \in Callers : di_write(t)
    \/ \E t \in Callers : do_cfg(t)
    \/ \E t \in Callers : do_out_read(t)
    \/ \E t \in Callers : do_out_write(t)
    \/ \E t \in Callers : st_read(t)
    \/ \E t \in Callers : st_write(t)
    \/ \E t \in Callers : en_irq_read(t)
    \/ \E t \in Callers : en_irq_write(t)
    \/ \E t \in Callers : en_cfg_read(t)
    \/ \E t \in Callers : en_cfg_write(t)
    \/ \E t \in Callers : ds_read(t)
    \/ \E t \in Callers : ds_write(t)

SpecRace == InitRace /\ [][NextRace]_vars

----------------------------------------------------------------------------
(* The claims. *)

Range(f) == {f[k] : k \in DOMAIN f}

\* the elements of the set S of numbers in ascending order
Ascending(S) ==
    CHOOSE f \in [1 .. Cardinality(S) -> S] :
        /\ Range(f) = S
        /\ \A j, k \in 1 .. Cardinality(S) : j < k => f[j] < f[k]

\* a handler run has returned
HandlerReturned == hpc = "h_idle" /\ nirqs > 0

\* the status bits below ngpio that the handler read at its start
Pending == {b \in status : b < ngpio}

\* C1: a handler run dispatches exactly the lines below lineCount whose status
\* bit was set at its start, in ascending order, on return exactly those status
\* bits have been cleared, and with no such bit set it writes no register.
C1_DispatchLoop ==
    HandlerReturned =>
        /\ dispatched = Ascending(Pending)
        /\ hcleared = Pending
        /\ Pending = {} => (dispatched = <<>> /\ hwrites = 0)

\* the thread t takes the step
StepOf(t) == pc'[t] # pc[t] \/ ncalls'[t] # ncalls[t]

\* C2: a per-line operation called with an index >= lineCount writes no config,
\* status or output register, and (all but setValue) returns InvalidLine.
C2_OutOfRange ==
    [][\A t \in Callers :
          (StepOf(t) /\ op'[t].idx >= ngpio) =>
              /\ cfg' = cfg /\ irq' = irq /\ out' = out
              /\ (pc'[t] = "idle" /\ op'[t].name # "set_value") => ret'[t] = <<-EINVAL>>]_vars

\* C3: when the scripted run has finished, the handler run has dispatched
\* exactly once, for line 3, status bit 3 is 0 and line 3's interrupt-enable
\* bit is 1.
C3_Scenario ==
    script = <<>> =>
        /\ dispatched = <<3>>
        /\ 3 \notin irq
        /\ MSS_GPIO_X_CFG_EN_INT \in cfg[3]

C3_Witness ==
    /\ script = <<>>
    /\ dispatched = <<3>>
    /\ cfg0[3] = {0, 2, 3, 7}
    /\ cfg[3] = {1, 3, 6, 7}

\* the register writes of a call of enable in their order: the config write
\* that makes the line an input, the status write that asserts the line's bit,
\* the config write that sets interrupt-enable
EnableOrder(e, i) ==
    /\ Len(e) <= 3
    /\ Len(e) >= 1 =>
          /\ e[1][1] = "cfg" /\ e[1][2] = i
          /\ MSS_GPIO_X_CFG_BIT_EN_IN \in e[1][3]
          /\ MSS_GPIO_X_CFG_BIT_EN_OUT \notin e[1][3]
          /\ MSS_GPIO_X_CFG_BIT_GPIO_OE \notin e[1][3]
    /\ Len(e) >= 2 => (e[2][1] = "irq" /\ i \in e[2][3])
    /\ Len(e) >= 3 =>
          (e[3][1] = "cfg" /\ e[3][2] = i /\ MSS_GPIO_X_CFG_EN_INT \in e[3][3])

\* C4: in every state of a call enable(index), index < lineCount, the register
\* writes the call has made are the start of: input direction, then the clear of
\* the line's sticky bit, then interrupt-enable; a call that has returned has made
\* all three.  So interrupt-enable is never written before the sticky bit is.
C4_EnableOrder ==
    \A t \in Callers :
        (op[t].name = "irq_enable" /\ cur_index(t) < ngpio) =>
            /\ EnableOrder(effects[t], cur_index(t))
            /\ pc[t] = "idle" => Len(effects[t]) = 3

\* a call of enable has returned, and its status write cleared the line's bit,
\* which was pending
C4_Witness ==
    \E t \in Callers :
        /\ op[t].name = "irq_enable" /\ cur_index(t) < ngpio /\ pc[t] = "idle"
        /\ Len(effects[t]) = 3
        /\ cur_index(t) \in effects[t][2][4]

\* C5: when probe has returned successfully, every line below lineCount whose
\* config register no line operation has written holds what it held before
\* probe with the interrupt-enable bit 0.
C5_ProbeClears ==
    ppc = "p_done" =>
        \A i \in 0 .. (ngpio - 1) :
            i \notin touched =>
                /\ MSS_GPIO_X_CFG_EN_INT \notin cfg[i]
                /\ cfg[i] \cup {MSS_GPIO_X_CFG_EN_INT} = cfg0[i] \cup {MSS_GPIO_X_CFG_EN_INT}

C5_Witness ==
    /\ ppc = "p_done"
    /\ \E i \in 0 .. (ngpio - 1) :
          /\ i \notin touched
          /\ MSS_GPIO_X_CFG_EN_INT \in cfg0[i]
          /\ cfg[i] = cfg0[i] \ {MSS_GPIO_X_CFG_EN_INT}
          /\ cfg[i] # {}

\* C6: no handler run starts and no line operation is called before probe has
\* finished its clear loop.
C6_InitAtomic ==
    [][(nirqs' # nirqs \/ ncalls' # ncalls) => ppc = "p_done"]_vars

\* C7: after probe has returned, the handler dispatches no line for which
\* enable has not been called.
C7_NoDispatchBeforeEnable ==
    [][(ppc = "p_done" /\ dispatched' # dispatched /\ dispatched' # <<>>) =>
          dispatched'[Len(dispatched')] \in enable_called]_vars

\* the caller t has returned from a call of name that passed the range test
Returned(t, name) ==
    /\ pc[t] = "idle"
    /\ op[t].name = name
    /\ op[t].idx < ngpio

\* C8: after setDirectionOutput(index, v), index < lineCount, the line's config
\* register holds exactly enable-output and output-enable, bit index of the
\* output register is v, and every other output bit and every other config
\* register is as it was at the call.
C8_DirectionOutput ==
    \A t \in Callers :
        Returned(t, "direction_output") =>
            /\ ret[t] = <<0>>
            /\ cfg = [pre.cfg EXCEPT ![op[t].idx] =
                         {MSS_GPIO_X_CFG_BIT_EN_OUT, MSS_GPIO_X_CFG_BIT_GPIO_OE}]
            /\ out = (pre.out \ {op[t].idx}) \cup (IF op[t].val = 1 THEN {op[t].idx} ELSE {})

C8_Witness ==
    \E t \in Callers :
        /\ Returned(t, "direction_output")
        /\ op[t].val = 1 /\ op[t].idx \notin pre.out /\ pre.out # {}
        /\ {MSS_GPIO_X_CFG_BIT_EN_IN, MSS_GPIO_X_CFG_EN_INT, 5, 6} \subseteq pre.cfg[op[t].idx]
        /\ cfg[op[t].idx] = {0, 2}

\* C9: a call setDirectionInput(index), index < lineCount, returns with
\* enable-input set and enable-output and output-enable clear in the line's
\* config register, and with every other bit of it, every other config
\* register, the output register and the status register as they were at
\* the call.
C9_DirectionInput ==
    [][\A t \in Callers :
          (op[t].name = "direction_input" /\ pc[t] = "di_write" /\ pc'[t] = "idle") =>
              /\ ret'[t] = <<0>>
              /\ cfg' = [pre.cfg EXCEPT ![op[t].idx] =
                            (@ \cup {MSS_GPIO_X_CFG_BIT_EN_IN})
                                \ {MSS_GPIO_X_CFG_BIT_EN_OUT, MSS_GPIO_X_CFG_BIT_GPIO_OE}]
              /\ out' = pre.out
              /\ irq' = pre.irq]_vars

C9_Witness ==
    \E t \in Callers :
        /\ Returned(t, "direction_input")
        /\ pre.cfg[op[t].idx] = {0, 2, 7}
        /\ cfg[op[t].idx] = {1, 7}
        /\ op[t].idx \in out
        /\ irq # {}

\* C10: getDirection(index) called after setDirectionInput(index) reports
\* Input (1), and called after setDirectionOutput(index, _) reports Output (0),
\* for index < lineCount.
C10_DirectionRoundTrip ==
    \A t \in Callers :
        (Returned(t, "get_direction") /\ pre.op[t].idx = op[t].idx) =>
            /\ pre.op[t].name = "direction_input" => ret[t] = <<1>>
            /\ pre.op[t].name = "direction_output" => ret[t] = <<0>>

C10_Witness ==
    \E t \in Callers :
        /\ Returned(t, "get_direction")
        /\ pre.op[t].idx = op[t].idx
        /\ pre.op[t].name = "direction_input"
        /\ ret[t] = <<1>>
        /\ MSS_GPIO_X_CFG_BIT_EN_IN \notin cfg0[op[t].idx]

\* the caller t has returned from getValue(index), called next after its
\* setDirectionOutput(index, v), index < lineCount
ValueRoundTrip(t) ==
    /\ Returned(t, "get_value")
    /\ pre.op[t].name = "direction_output"
    /\ pre.op[t].idx = op[t].idx

TriggerCode(type) ==
    CASE type = "IRQ_TYPE_LEVEL_HIGH" -> 0
      [] type = "IRQ_TYPE_LEVEL_LOW" -> 1
      [] type = "IRQ_TYPE_EDGE_RISING" -> 2
      [] type = "IRQ_TYPE_EDGE_FALLING" -> 3
      [] type = "IRQ_TYPE_EDGE_BOTH" -> 4
      [] OTHER -> 1

\* the bits 5..7 that hold the code n
TriggerBits(n) ==
    (IF n % 2 = 1 THEN {5} ELSE {}) \cup (IF (n \div 2) % 2 = 1 THEN {6} ELSE {})
        \cup (IF (n \div 4) % 2 = 1 THEN {7} ELSE {})

\* C12: setTriggerType(index, t), index < lineCount, returns with the line's
\* config register equal to its value at the call OR (code(t) << 5), every
\* other register as at the call, and the trigger bits of the request made
\* before it on the same line still set: after two requests on a line the
\* trigger field is what it held at first OR the codes of both.
C12_SetTriggerType ==
    \A t \in Callers :
        Returned(t, "irq_set_type") =>
            /\ ret[t] = <<0>>
            /\ cfg = [pre.cfg EXCEPT ![op[t].idx] = @ \cup TriggerBits(TriggerCode(op[t].type))]
            /\ irq = pre.irq /\ out = pre.out /\ inp = pre.inp
            /\ (pre.op[t].name = "irq_set_type" /\ pre.op[t].idx = op[t].idx) =>
                  /\ TriggerBits(TriggerCode(pre.op[t].type)) \subseteq cfg[op[t].idx]
                  /\ ncalls[t] = 2 =>
                        cfg[op[t].idx] \cap {5, 6, 7} =
                            (cfg0[op[t].idx] \cap {5, 6, 7})
                                \cup TriggerBits(TriggerCode(pre.op[t].type))
                                \cup TriggerBits(TriggerCode(op[t].type))

\* edge-rising, then a request the switch does not name: the field holds 3
C12_Witness ==
    \E t \in Callers :
        /\ Returned(t, "irq_set_type")
        /\ pre.op[t].name = "irq_set_type" /\ pre.op[t].idx = op[t].idx
        /\ pre.op[t].type = "IRQ_TYPE_EDGE_RISING" /\ op[t].type = "IRQ_TYPE_NONE"
        /\ cfg0[op[t].idx] = {1, 3}
        /\ cfg[op[t].idx] = {1, 5, 6}

\* the caller t has returned from a call of the interrupt-chip operation name
ReturnedIrqOp(t, name) == pc[t] = "idle" /\ op[t].name = name

\* C13: disable(index) returns with the interrupt-enable bit of the line's
\* config register clear and every other bit of it, every other config register,
\* the status register and the output register as they were at the call.
C13_DisableFrame ==
    [][\A t \in Callers :
          (op[t].name = "irq_disable" /\ pc[t] # "idle" /\ pc'[t] = "idle") =>
              /\ cfg' = [pre.cfg EXCEPT ![op[t].idx % MSS_NUM_GPIO] =
                            @ \ {MSS_GPIO_X_CFG_EN_INT}]
              /\ irq' = pre.irq
              /\ out' = pre.out]_vars

C13_Witness ==
    \E t \in Callers :
        /\ ReturnedIrqOp(t, "irq_disable")
        /\ op[t].idx < ngpio
        /\ pre.cfg[op[t].idx] = {1, 3, 5, 6}
        /\ cfg[op[t].idx] = {1, 5, 6}
        /\ out # {}

\* the line of the interrupt-chip call of t, and of the call t made before it
IrqLine(t) == op[t].idx % MSS_NUM_GPIO
PrevIrqLine(t) == pre.op[t].idx % MSS_NUM_GPIO

\* C14: on return of disable(index) interrupt-enable is 0, and when the call
\* before it was disable(index) too the registers are as they were at the call;
\* on return of every enable(index), index < lineCount, the line is an input,
\* its sticky bit is clear and interrupt-enable is 1, and no step of enable
\* dispatches.
C14_Idempotence ==
    [][\A t \in Callers :
          /\ (op[t].name = "irq_disable" /\ pc[t] # "idle" /\ pc'[t] = "idle") =>
                /\ MSS_GPIO_X_CFG_EN_INT \notin cfg'[IrqLine(t)]
                /\ (pre.op[t].name = "irq_disable" /\ PrevIrqLine(t) = IrqLine(t)) =>
                      (cfg' = pre.cfg /\ irq' = pre.irq /\ out' = pre.out)
          /\ (op[t].name = "irq_enable" /\ pc[t] # "idle" /\ pc'[t] = "idle"
                  /\ IrqLine(t) < ngpio) =>
                /\ cfg'[IrqLine(t)] \cap {MSS_GPIO_X_CFG_BIT_EN_OUT, MSS_GPIO_X_CFG_BIT_EN_IN,
                                          MSS_GPIO_X_CFG_BIT_GPIO_OE, MSS_GPIO_X_CFG_EN_INT}
                      = {MSS_GPIO_X_CFG_BIT_EN_IN, MSS_GPIO_X_CFG_EN_INT}
                /\ IrqLine(t) \notin irq'
          /\ (op'[t].name = "irq_enable" /\ StepOf(t)) => dispatched' = dispatched]_vars

\* the second of two calls enable(index) has returned: it found nothing pending
\* and left the config registers as the first call had
C14_Witness ==
    \E t \in Callers :
        /\ ReturnedIrqOp(t, "irq_enable")
        /\ pre.op[t].name = "irq_enable"
        /\ PrevIrqLine(t) = IrqLine(t)
        /\ IrqLine(t) < ngpio
        /\ ncalls[t] = 2
        /\ Len(effects[t]) = 3
        /\ cfg = pre.cfg
        /\ IrqLine(t) \notin irq
        /\ <<"irq", IrqLine(t), {IrqLine(t)}, {}>> = effects[t][2]

\* the one call t has made wrote value v to bit i of the output register
WroteOutput(t, i, v) ==
    /\ pc[t] = "idle" /\ ncalls[t] = 1
    /\ op[t].name \in {"set_value", "direction_output"}
    /\ op[t].idx = i /\ op[t].val = v
    /\ i < ngpio

\* C15: when two threads have each made one call of setValue (or
\* setDirectionOutput) on different lines i and j, with values a and b, and both
\* have returned, bit i of the output register is a and bit j is b, however the
\* calls interleaved.
C15_NoLostOutput ==
    \A t, u \in Callers, i, j \in OutIdx, a, b \in OutVal :
        (t # u /\ i # j /\ WroteOutput(t, i, a) /\ WroteOutput(u, j, b)) =>
            /\ (i \in out) = (a = 1)
            /\ (j \in out) = (b = 1)

C15_Witness ==
    /\ WroteOutput("t1", 0, 0) /\ op["t1"].name = "set_value"
    /\ WroteOutput("t2", 1, 1) /\ op["t2"].name = "set_value"
    /\ out = {1}
    /\ ppc = "p_done"

\* C16: a handler run clears no status bit of a line it does not dispatch: a
\* bit the hardware sets for another line after the run's first read of the
\* status register is still set when the run returns.
C16_NoClobber ==
    HandlerReturned => hcleared \subseteq Range(dispatched)

\* C17: every write of a config register, the status register or the output
\* register, by a callback, by the handler or by probe's clear loop, is made by
\* a writer that holds the lock.
C17_LockGate ==
    [][/\ \A t \in Callers :
             Len(effects'[t]) > Len(effects[t]) => (lock = t \/ lock' = t)
       /\ hwrites' > hwrites => (lock = "handler" \/ lock' = "handler")
       /\ (ppc = "p_write" /\ ppc' # "p_write") => lock = "probe"]_vars

\* what the operation o, executed atomically, makes of the value c of its
\* line's config register
Atomically(o, c) ==
    CASE o.name = "irq_enable" ->
             (c \cup {MSS_GPIO_X_CFG_BIT_EN_IN, MSS_GPIO_X_CFG_EN_INT})
                 \ {MSS_GPIO_X_CFG_BIT_EN_OUT, MSS_GPIO_X_CFG_BIT_GPIO_OE}
      [] o.name = "irq_disable" -> c \ {MSS_GPIO_X_CFG_EN_INT}
      [] o.name = "irq_set_type" -> c \cup TriggerBits(TriggerCode(o.type))
      [] o.name = "direction_input" ->
             (c \cup {MSS_GPIO_X_CFG_BIT_EN_IN})
                 \ {MSS_GPIO_X_CFG_BIT_EN_OUT, MSS_GPIO_X_CFG_BIT_GPIO_OE}
      [] o.name = "direction_output" ->
             {MSS_GPIO_X_CFG_BIT_EN_OUT, MSS_GPIO_X_CFG_BIT_GPIO_OE}
      [] OTHER -> c

\* C18: when enable or disable on one thread and setTriggerType,
\* setDirectionInput or setDirectionOutput on another, on the same line, each
\* called once after probe, have both returned, the line's config register
\* holds what the two operations make of it executed atomically in one of the
\* two orders.
C18_NoLostConfig ==
    \A t, u \in Callers :
        (/\ t # u
         /\ pc[t] = "idle" /\ ncalls[t] = 1 /\ op[t].name \in {"irq_enable", "irq_disable"}
         /\ pc[u] = "idle" /\ ncalls[u] = 1
         /\ op[u].name \in {"irq_set_type", "direction_input", "direction_output"}) =>
            cfg[0] \in {Atomically(op[u], Atomically(op[t], probe_clear_cfg(cfg0[0]))),
                        Atomically(op[t], Atomically(op[u], probe_clear_cfg(cfg0[0])))}

\* C19: enable(index), index < lineCount, returns with the status bit of every
\* other line that was pending at the call still set.
C19_EnableKeepsOthers ==
    [][\A t \in Callers :
          (op[t].name = "irq_enable" /\ pc[t] # "idle" /\ pc'[t] = "idle"
              /\ IrqLine(t) < ngpio) =>
              (pre.irq \ {IrqLine(t)}) \subseteq irq']_vars

\* exactly one of {enable-input} and {enable-output, output-enable} is set in
\* the config value c
DirectionBitsOK(c) ==
    c \cap {MSS_GPIO_X_CFG_BIT_EN_OUT, MSS_GPIO_X_CFG_BIT_EN_IN, MSS_GPIO_X_CFG_BIT_GPIO_OE}
        \in {{MSS_GPIO_X_CFG_BIT_EN_IN},
             {MSS_GPIO_X_CFG_BIT_EN_OUT, MSS_GPIO_X_CFG_BIT_GPIO_OE}}

\* C20: once a thread's setDirectionInput, setDirectionOutput or enable on a
\* line below lineCount has returned, the line's config register has exactly
\* one of {enable-input} and {enable-output, output-enable} set, whatever the
\* other thread does.
C20_DirectionBits ==
    \A t \in Callers :
        (/\ pc[t] = "idle"
         /\ op[t].name \in {"direction_input", "direction_output", "irq_enable"}
         /\ cur_index(t) < ngpio) =>
            DirectionBitsOK(cfg[cur_index(t)])

====
